---- MODULE Spec2Model ----
(***************************************************************************)
(* Linear assignment solvers of ASD-Prototype:                             *)
(*   - Crouse's shortest augmenting path solver                            *)
(*     (Utils/LAP/CrouseSAP.h, ASD/Video/Tracking/LAP/CrouseSAP.h) behind  *)
(*     solve_rlap / solve_rlapf;                                           *)
(*   - the Jonker-Volgenant solver rlap (Tracking/LAP/lapjv-core.h) behind *)
(*     solve_lap / solve_lapf.                                             *)
(* Costs are IEEE floating point numbers.  Finite costs are small integers *)
(* (exactly representable, so the arithmetic on them is exact); +infinity, *)
(* -infinity and NaN are modelled with their IEEE arithmetic and           *)
(* comparisons.                                                            *)
(***************************************************************************)
EXTENDS Integers, Sequences, FiniteSets, TLC

(***************************************************************************)
(* Bounds of the model.                                                    *)
(***************************************************************************)
MaxDim == 3
MaxCells == 9
MaxCost == 1
MaxDimX == 3
MaxCellsX == 6
MaxCostX == 1
MaxCostJ == 2
MaxReduceIters == 12
MaxConstDim == 4

(***************************************************************************)
(* IEEE floating point values.                                             *)
(***************************************************************************)
Fin(n) == [k |-> "fin", n |-> n]
INFINITY == [k |-> "inf", n |-> 0]
NEG_INFINITY == [k |-> "ninf", n |-> 0]
NAN == [k |-> "nan", n |-> 0]

IsFin(x) == x.k = "fin"
IsNaN(x) == x.k = "nan"

FNeg(x) ==
    CASE x.k = "fin" -> Fin(0 - x.n)
      [] x.k = "inf" -> NEG_INFINITY
      [] x.k = "ninf" -> INFINITY
      [] OTHER -> NAN

FAdd(x, y) ==
    CASE x.k = "nan" \/ y.k = "nan" -> NAN
      [] x.k = "fin" /\ y.k = "fin" -> Fin(x.n + y.n)
      [] x.k = "inf" /\ y.k = "ninf" -> NAN
      [] x.k = "ninf" /\ y.k = "inf" -> NAN
      [] x.k = "fin" -> y
      [] OTHER -> x

FSub(x, y) == FAdd(x, FNeg(y))

\* x < y
FLt(x, y) ==
    CASE x.k = "nan" \/ y.k = "nan" -> FALSE
      [] x.k = "fin" /\ y.k = "fin" -> x.n < y.n
      [] x.k = "ninf" -> y.k # "ninf"
      [] x.k = "fin" -> y.k = "inf"
      [] OTHER -> FALSE

\* x == y
FEq(x, y) == x.k # "nan" /\ y.k # "nan" /\ x = y

\* x >= y
FGe(x, y) == FLt(y, x) \/ FEq(x, y)

\* x <= y
FLe(x, y) == FLt(x, y) \/ FEq(x, y)

(***************************************************************************)
(* Status codes of solve_rectangular_linear_assignment.                    *)
(***************************************************************************)
RECTANGULAR_LSAP_OK == 0
RECTANGULAR_LSAP_INFEASIBLE == -1
RECTANGULAR_LSAP_INVALID == -2

\* the value -1 that marks "no row", "no column", "no sink"
NONE == -1

Min2(x, y) == IF x < y THEN x ELSE y

(***************************************************************************)
(* Matrix transform: transpose a tall matrix, negate for maximisation.     *)
(***************************************************************************)
\* faulty variant: the copy keeps the row-major order of the tall matrix
TransposeCopyPlain(nr0, nc0, costMatrix) ==
    [k \in 0..(nr0 * nc0 - 1) |-> costMatrix[k]]

\* temp[j * nr + i] = costMatrix[i * nc + j]
TransposeCopy(nr0, nc0, costMatrix) ==
    [k \in 0..(nr0 * nc0 - 1) |-> costMatrix[(k % nr0) * nc0 + (k \div nr0)]]

\* faulty variant: the copy is not negated
NegateCopySkipped(m) == [k \in DOMAIN m |-> m[k]]

\* temp[i] = -temp[i]
NegateCopy(m) == [k \in DOMAIN m |-> FNeg(m[k])]

\* faulty variant: only NaN is rejected
InvalidEntryNaNOnly(x) == ~FEq(x, x)

\* faulty variant: every infinite entry is rejected
InvalidEntryAnyInfinity(x) == ~FEq(x, x) \/ FEq(x, NEG_INFINITY) \/ FEq(x, INFINITY)

\* costMatrix[i] != costMatrix[i] || costMatrix[i] == -INFINITY
InvalidEntry(x) == ~FEq(x, x) \/ FEq(x, NEG_INFINITY)

HasInvalidEntry(m) == \E k \in DOMAIN m : InvalidEntry(m[k])

\* the working copy of the cost matrix and the swapped dimensions
Normalize(nr0, nc0, costMatrix, maxi) ==
    LET transpose == nc0 < nr0
        t == IF transpose THEN TransposeCopy(nr0, nc0, costMatrix) ELSE costMatrix
    IN  [transpose |-> transpose,
         nr |-> IF transpose THEN nc0 ELSE nr0,
         nc |-> IF transpose THEN nr0 ELSE nc0,
         cm |-> IF maxi THEN NegateCopy(t) ELSE t]

(***************************************************************************)
(* State.                                                                  *)
(*   solver, variant   which entry point is called: "crouse" with the int  *)
(*                     (Utils/LAP) or the size_t (ASD/Tracking/LAP) index  *)
(*                     instantiation, or "jv" (solve_lap)                  *)
(*   numrows, numcols, cost, maximize   the caller's arguments             *)
(*   vbuf              the content of the buffer v when rlap is entered    *)
(*   c                 the frame of solve_rectangular_linear_assignment    *)
(*   jv                the frame of rlap                                   *)
(***************************************************************************)
VARIABLES solver, variant, numrows, numcols, cost, maximize, vbuf, c, jv

vars == <<solver, variant, numrows, numcols, cost, maximize, vbuf, c, jv>>

inputs == <<solver, variant, numrows, numcols, cost, maximize, vbuf>>

Range0(n) == 0..(n - 1)

ConstFun(n, x) == [k \in Range0(n) |-> x]

(***************************************************************************)
(* The frame of solve_rectangular_linear_assignment on entry.  a and b are *)
(* the caller's output buffers: their domain is the set of elements the    *)
(* call has written.                                                       *)
(***************************************************************************)
CrouseEntry(var, nr0, nc0, costMatrix, maxi) ==
    [pc |-> "entry", variant |-> var, nr |-> nr0, nc |-> nc0,
     costMatrix |-> costMatrix, maximize |-> maxi, transpose |-> FALSE,
     u |-> <<>>, v |-> <<>>, shortestPathCosts |-> <<>>, path |-> <<>>,
     col4row |-> <<>>, row4col |-> <<>>, SR |-> <<>>, SC |-> <<>>,
     remaining |-> <<>>, num_remaining |-> 0, curRow |-> 0, i |-> 0,
     minVal |-> Fin(0), sink |-> NONE, iters |-> 0, walk |-> 0,
     a |-> <<>>, b |-> <<>>, ret |-> RECTANGULAR_LSAP_OK]

\* the frame when no call of the Crouse solver is made
CrouseIdle == [CrouseEntry("int", 0, 0, <<>>, FALSE) EXCEPT !.pc = "idle"]

(***************************************************************************)
(* solve_rectangular_linear_assignment, lines 132-166: trivial inputs,     *)
(* transposition of a tall matrix, negation for maximisation.              *)
(***************************************************************************)
Prepare(f) ==
    IF f.nr = 0 \/ f.nc = 0
    THEN [f EXCEPT !.pc = "done", !.ret = RECTANGULAR_LSAP_OK]
    ELSE LET n == Normalize(f.nr, f.nc, f.costMatrix, f.maximize)
         IN  [f EXCEPT !.pc = "validate", !.transpose = n.transpose,
                       !.nr = n.nr, !.nc = n.nc, !.costMatrix = n.cm]

(***************************************************************************)
(* Lines 168-184: the test for NaN and -inf entries, then the initial      *)
(* values of the working vectors.                                          *)
(***************************************************************************)
Validate(f) ==
    IF HasInvalidEntry(f.costMatrix)
    THEN [f EXCEPT !.pc = "done", !.ret = RECTANGULAR_LSAP_INVALID]
    ELSE [f EXCEPT !.pc = "row",
                   !.u = ConstFun(f.nr, Fin(0)),
                   !.v = ConstFun(f.nc, Fin(0)),
                   !.shortestPathCosts = ConstFun(f.nc, Fin(0)),
                   !.path = ConstFun(f.nc, NONE),
                   !.col4row = ConstFun(f.nr, NONE),
                   !.row4col = ConstFun(f.nc, NONE),
                   !.SR = ConstFun(f.nr, FALSE),
                   !.SC = ConstFun(f.nc, FALSE),
                   !.remaining = ConstFun(f.nc, 0),
                   !.curRow = 0]

(***************************************************************************)
(* Line 187 and augmenting_path lines 68-84: the head of the row loop and  *)
(* the start of the search from curRow.                                    *)
(***************************************************************************)
\* faulty variant: remaining is filled in ascending order
InitialRemainingAscending(nc0) == [it \in Range0(nc0) |-> it]

\* lines 72-77: remaining[it] = nc - it - 1
InitialRemaining(nc0) == [it \in Range0(nc0) |-> nc0 - it - 1]

RowLoop(f) ==
    IF f.curRow < f.nr
    THEN [f EXCEPT !.pc = "search",
                   !.minVal = Fin(0),
                   !.num_remaining = f.nc,
                   !.remaining = InitialRemaining(f.nc),
                   !.SR = ConstFun(f.nr, FALSE),
                   !.SC = ConstFun(f.nc, FALSE),
                   !.shortestPathCosts = ConstFun(f.nc, INFINITY),
                   !.sink = NONE,
                   !.i = f.curRow,
                   !.iters = 0]
    ELSE [f EXCEPT !.pc = "output"]

(***************************************************************************)
(* augmenting_path lines 91-108: the scan of the remaining columns from    *)
(* row i.  acc carries shortestPathCosts, path, lowest and index.          *)
(***************************************************************************)
\* the tie-break of lines 103-104
TakesLowest(spcj, lowest, row4colj) ==
    FLt(spcj, lowest) \/ (FEq(spcj, lowest) /\ row4colj = NONE)

RECURSIVE ScanRemaining(_, _, _)
ScanRemaining(f, it, acc) ==
    IF it >= f.num_remaining THEN acc
    ELSE LET j == f.remaining[it]
             r == FSub(FSub(FAdd(f.minVal, f.costMatrix[f.i * f.nc + j]), f.u[f.i]), f.v[j])
             better == FLt(r, acc.shortestPathCosts[j])
             spc == IF better THEN [acc.shortestPathCosts EXCEPT ![j] = r]
                    ELSE acc.shortestPathCosts
             pth == IF better THEN [acc.path EXCEPT ![j] = f.i] ELSE acc.path
             take == TakesLowest(spc[j], acc.lowest, f.row4col[j])
         IN  ScanRemaining(f, it + 1,
                 [shortestPathCosts |-> spc, path |-> pth,
                  lowest |-> IF take THEN spc[j] ELSE acc.lowest,
                  index |-> IF take THEN it ELSE acc.index])

(***************************************************************************)
(* augmenting_path lines 85-124: one iteration of while (sink == -1), and  *)
(* the test of the returned sink at lines 193-195.  With Idx = size_t the  *)
(* test sink < 0 is never true: the -1 that augmenting_path returns is     *)
(* used as a sink, with minVal never assigned.                             *)
(***************************************************************************)
SinkIsNegative(var, sink) == var = "int" /\ sink < 0

\* faulty variant: the columns matched so far are copied to the outputs first
ReturnInfeasibleWithPartialOutput(g) ==
    [g EXCEPT !.pc = "done", !.ret = RECTANGULAR_LSAP_INFEASIBLE,
              !.a = [i \in Range0(g.curRow) |-> i],
              !.b = [i \in Range0(g.curRow) |-> g.col4row[i]]]

\* lines 193-195: return RECTANGULAR_LSAP_INFEASIBLE
ReturnInfeasible(g) ==
    [g EXCEPT !.pc = "done", !.ret = RECTANGULAR_LSAP_INFEASIBLE]

SearchStep(f) ==
    LET s == ScanRemaining([f EXCEPT !.SR[f.i] = TRUE], 0,
                 [shortestPathCosts |-> f.shortestPathCosts, path |-> f.path,
                  lowest |-> INFINITY, index |-> NONE])
        g == [f EXCEPT !.SR[f.i] = TRUE,
                       !.shortestPathCosts = s.shortestPathCosts,
                       !.path = s.path,
                       !.iters = f.iters + 1]
    IN  IF FEq(s.lowest, INFINITY)
        THEN \* return -1
             IF SinkIsNegative(f.variant, NONE)
             THEN ReturnInfeasible(g)
             ELSE [g EXCEPT !.pc = "undefined"]
        ELSE LET j == f.remaining[s.index]
                 free == f.row4col[j] = NONE
             IN  [g EXCEPT !.minVal = s.lowest,
                           !.sink = IF free THEN j ELSE NONE,
                           !.i = IF free THEN f.i ELSE f.row4col[j],
                           !.SC[j] = TRUE,
                           !.remaining[s.index] = f.remaining[f.num_remaining - 1],
                           !.num_remaining = f.num_remaining - 1,
                           !.pc = IF free THEN "update" ELSE "search"]

(***************************************************************************)
(* Lines 197-209: the update of the dual variables.                        *)
(***************************************************************************)
\* faulty variant: the column duals are left as they were
UpdateDualsRowsOnly(f) ==
    [f EXCEPT
       !.u = [i \in Range0(f.nr) |->
                IF i = f.curRow THEN FAdd(f.u[i], f.minVal)
                ELSE IF f.SR[i]
                     THEN FAdd(f.u[i], FSub(f.minVal, f.shortestPathCosts[f.col4row[i]]))
                     ELSE f.u[i]]]

UpdateDuals(f) ==
    [f EXCEPT
       !.u = [i \in Range0(f.nr) |->
                IF i = f.curRow THEN FAdd(f.u[i], f.minVal)
                ELSE IF f.SR[i]
                     THEN FAdd(f.u[i], FSub(f.minVal, f.shortestPathCosts[f.col4row[i]]))
                     ELSE f.u[i]],
       !.v = [j \in Range0(f.nc) |->
                IF f.SC[j]
                THEN FSub(f.v[j], FSub(f.minVal, f.shortestPathCosts[j]))
                ELSE f.v[j]]]

(***************************************************************************)
(* Lines 211-220: the walk back over path[] from the sink.  walk counts    *)
(* the iterations of while (1).                                            *)
(***************************************************************************)
\* faulty variant: the sink is given to path[sink] and the walk stops there
AugmentSinkOnly(f, j) ==
    [f EXCEPT !.row4col[j] = f.path[j], !.col4row[f.path[j]] = j, !.walk = f.walk + 1]

RECURSIVE Augment(_, _)
Augment(f, j) ==
    LET i == f.path[j]
        g == [f EXCEPT !.row4col[j] = i, !.col4row[i] = j, !.walk = f.walk + 1]
    IN  IF i = f.curRow THEN g
        ELSE IF g.walk > f.nr THEN [g EXCEPT !.pc = "diverged"]
        ELSE Augment(g, f.col4row[i])

\* the body of the row loop after a sink was found, and curRow++
UpdateAndAugment(f) ==
    LET g == Augment([UpdateDuals(f) EXCEPT !.walk = 0], f.sink)
    IN  IF g.pc = "diverged" THEN g
        ELSE [g EXCEPT !.curRow = f.curRow + 1, !.pc = "row"]

(***************************************************************************)
(* argsort_iter: the indices of w in ascending order of their values.      *)
(***************************************************************************)
\* faulty variant: the indices are left in their order
argsort_iterUnsorted(w) == [p \in DOMAIN w |-> p]

argsort_iter(w) ==
    [p \in DOMAIN w |->
        CHOOSE x \in DOMAIN w : Cardinality({y \in DOMAIN w : w[y] < w[x]}) = p]

(***************************************************************************)
(* Lines 223-238: the outputs, in the caller's orientation.                *)
(***************************************************************************)
WriteOutput(f) ==
    LET idx == argsort_iter(f.col4row)
    IN  [f EXCEPT
           !.a = IF f.transpose THEN [i \in Range0(f.nr) |-> f.col4row[idx[i]]]
                 ELSE [i \in Range0(f.nr) |-> i],
           !.b = IF f.transpose THEN [i \in Range0(f.nr) |-> idx[i]]
                 ELSE [i \in Range0(f.nr) |-> f.col4row[i]],
           !.ret = RECTANGULAR_LSAP_OK,
           !.pc = "done"]

(***************************************************************************)
(* The size_t instantiation after augmenting_path returned -1: minVal is   *)
(* read uninitialised and path[-1], row4col[-1] are accessed out of        *)
(* bounds.  The call then either crashes or runs on with arbitrary values  *)
(* and returns 0 with arbitrary outputs.                                   *)
(***************************************************************************)
UndefinedOutcomes(f) ==
    {[f EXCEPT !.pc = "crashed"]} \cup
    {[f EXCEPT !.pc = "done", !.ret = RECTANGULAR_LSAP_OK, !.a = x, !.b = y] :
        x \in [Range0(f.nr) -> Range0(f.nr)], y \in [Range0(f.nr) -> Range0(f.nc)]}

(***************************************************************************)
(* One step of the call.                                                   *)
(***************************************************************************)
CrouseStep(f) ==
    CASE f.pc = "entry" -> Prepare(f)
      [] f.pc = "validate" -> Validate(f)
      [] f.pc = "row" -> RowLoop(f)
      [] f.pc = "search" -> SearchStep(f)
      [] f.pc = "update" -> UpdateAndAugment(f)
      [] f.pc = "output" -> WriteOutput(f)
      [] OTHER -> f

\* the whole call, as far as its behaviour is defined
RECURSIVE CrouseRun(_)
CrouseRun(f) ==
    IF f.pc \in {"done", "undefined", "crashed", "diverged", "idle"} THEN f
    ELSE CrouseRun(CrouseStep(f))

\* solve_rlap / solve_rlapf (int) and solve_rlap / solve_rlapf (size_t)
solve_rlap(var, nr0, nc0, costMatrix, maxi) ==
    CrouseRun(CrouseEntry(var, nr0, nc0, costMatrix, maxi))

(***************************************************************************)
(* Actions of the Crouse solver.                                           *)
(***************************************************************************)
CPrepare == c.pc = "entry" /\ c' = Prepare(c) /\ UNCHANGED <<inputs, jv>>

CValidate == c.pc = "validate" /\ c' = Validate(c) /\ UNCHANGED <<inputs, jv>>

CRowLoop == c.pc = "row" /\ c' = RowLoop(c) /\ UNCHANGED <<inputs, jv>>

CSearch == c.pc = "search" /\ c' = SearchStep(c) /\ UNCHANGED <<inputs, jv>>

CUpdate == c.pc = "update" /\ c' = UpdateAndAugment(c) /\ UNCHANGED <<inputs, jv>>

COutput == c.pc = "output" /\ c' = WriteOutput(c) /\ UNCHANGED <<inputs, jv>>

CUndefined ==
    /\ c.pc = "undefined"
    /\ c' \in UndefinedOutcomes(c)
    /\ UNCHANGED <<inputs, jv>>

(***************************************************************************)
(* The Jonker-Volgenant solver.                                            *)
(***************************************************************************)
\* std::numeric_limits<cost>::max(), a finite value above every cost
CostMax == 1000000
numeric_limits_max == Fin(CostMax)

(***************************************************************************)
(* find_umins: the minimum and the second minimum of cost[i][j] - v[j]     *)
(* over the columns, and their columns j1 and j2.                          *)
(***************************************************************************)
RECURSIVE FindUminsFrom(_, _, _, _, _, _)
FindUminsFrom(dim, i, assign_cost, v, j, acc) ==
    IF j >= dim THEN acc
    ELSE LET h == FSub(assign_cost[i * dim + j], v[j])
         IN  FindUminsFrom(dim, i, assign_cost, v, j + 1,
                 IF FLt(h, acc.usubmin)
                 THEN IF FGe(h, acc.umin)
                      THEN [acc EXCEPT !.usubmin = h, !.j2 = j]
                      ELSE [umin |-> h, usubmin |-> acc.umin, j1 |-> j, j2 |-> acc.j1]
                 ELSE acc)

find_umins(dim, i, assign_cost, v) ==
    FindUminsFrom(dim, i, assign_cost, v, 1,
        [umin |-> FSub(assign_cost[i * dim], v[0]), usubmin |-> numeric_limits_max,
         j1 |-> 0, j2 |-> NONE])

(***************************************************************************)
(* solve_lap / solve_lapf and rlap lines 66-88: u and v are allocated and  *)
(* not initialised (v holds whatever the buffer held, vb); every row is    *)
(* free, nothing is assigned.                                              *)
(***************************************************************************)
solve_lap(inputDims, outputDims, costMatrix, vb) ==
    [pc |-> "reduce_loop", dim0 |-> inputDims, dim1 |-> outputDims,
     assign_cost |-> costMatrix,
     u |-> ConstFun(inputDims, Fin(0)), v |-> vb,
     free |-> [i \in Range0(inputDims) |-> i],
     rowsol |-> ConstFun(inputDims, NONE),
     colsol |-> ConstFun(outputDims, NONE),
     collist |-> ConstFun(outputDims, 0),
     d |-> ConstFun(outputDims, Fin(0)),
     pred |-> ConstFun(outputDims, 0),
     numfree |-> inputDims, loopcnt |-> 0, k |-> 0, prevnumfree |-> 0,
     f |-> 0, freerow |-> 0, low |-> 0, up |-> 0, last |-> 0, min |-> Fin(0),
     endofpath |-> NONE, unassigned_found |-> FALSE, iters |-> 0, walk |-> 0,
     ret |-> Fin(0)]

(***************************************************************************)
(* rlap lines 92-98 and 149-152: the head of the loop that runs the        *)
(* augmenting row reduction twice.                                         *)
(***************************************************************************)
ReduceLoop(g) ==
    IF g.loopcnt < 2
    THEN [g EXCEPT !.k = 0, !.prevnumfree = g.numfree, !.numfree = 0, !.iters = 0,
                   !.pc = "reduce"]
    ELSE [g EXCEPT !.f = 0, !.pc = "augment_loop"]

(***************************************************************************)
(* rlap lines 99-144: one iteration of while (k < prevnumfree).  Reading   *)
(* colsol[j2] with j2 = -1 is an access out of bounds.  iters counts the   *)
(* iterations of the current pass.                                         *)
(***************************************************************************)
ReduceRow(g) ==
    IF g.k >= g.prevnumfree
    THEN [g EXCEPT !.loopcnt = g.loopcnt + 1, !.pc = "reduce_loop"]
    ELSE LET i == g.free[g.k]
             k1 == g.k + 1
             m == find_umins(g.dim1, i, g.assign_cost, g.v)
             vj1_new == FSub(g.v[m.j1], FSub(m.usubmin, m.umin))
             vj1_lowers == FLt(vj1_new, g.v[m.j1])
             swap == ~vj1_lowers /\ g.colsol[m.j1] >= 0
             j1 == IF swap THEN m.j2 ELSE m.j1
         IN  IF j1 = NONE \/ (g.colsol[j1] >= 0 /\ ~vj1_lowers /\ g.numfree >= g.dim0)
             THEN [g EXCEPT !.pc = "undefined"]
             ELSE LET i0 == g.colsol[j1]
                      fr == IF i0 >= 0
                            THEN IF vj1_lowers THEN [g.free EXCEPT ![k1 - 1] = i0]
                                 ELSE [g.free EXCEPT ![g.numfree] = i0]
                            ELSE g.free
                  IN  [g EXCEPT
                         !.v = IF vj1_lowers THEN [g.v EXCEPT ![m.j1] = vj1_new] ELSE g.v,
                         !.rowsol[i] = j1,
                         !.colsol[j1] = i,
                         !.free = fr,
                         !.iters = g.iters + 1,
                         !.k = IF i0 >= 0 /\ vj1_lowers THEN k1 - 1 ELSE k1,
                         !.numfree = IF i0 >= 0 /\ ~vj1_lowers THEN g.numfree + 1
                                     ELSE g.numfree]

(***************************************************************************)
(* rlap lines 152-181: the head of the augmentation loop and the start of  *)
(* the shortest path search from free[f].                                  *)
(***************************************************************************)
AugmentLoop(g) ==
    IF g.f < g.numfree
    THEN LET freerow == g.free[g.f]
         IN  [g EXCEPT
                !.freerow = freerow,
                !.d = [j \in Range0(g.dim1) |->
                         FSub(g.assign_cost[freerow * g.dim1 + j], g.v[j])],
                !.pred = ConstFun(g.dim1, freerow),
                !.collist = [j \in Range0(g.dim1) |-> j],
                !.low = 0, !.up = 0, !.unassigned_found = FALSE,
                !.last = 0, !.min = Fin(0), !.pc = "dijkstra"]
    ELSE [g EXCEPT !.pc = "cost"]

(***************************************************************************)
(* rlap lines 189-205: the scan of the columns collist[up..dim1-1] for the *)
(* new minimum of d; the columns at the minimum move to collist[low..up-1] *)
(***************************************************************************)
RECURSIVE ScanMinimum(_, _, _)
ScanMinimum(g, k, acc) ==
    IF k >= g.dim1 THEN acc
    ELSE LET j == acc.collist[k]
             h == g.d[j]
         IN  IF FLe(h, acc.min)
             THEN LET up0 == IF FLt(h, acc.min) THEN g.low ELSE acc.up
                  IN  ScanMinimum(g, k + 1,
                          [collist |-> [acc.collist EXCEPT ![k] = acc.collist[up0],
                                                           ![up0] = j],
                           up |-> up0 + 1,
                           min |-> IF FLt(h, acc.min) THEN h ELSE acc.min])
             ELSE ScanMinimum(g, k + 1, acc)

(***************************************************************************)
(* rlap lines 228-252: the distances of the unscanned columns are updated  *)
(* through row i; an unassigned column reached at the minimum ends the     *)
(* search.                                                                 *)
(***************************************************************************)
RECURSIVE Relax(_, _, _, _, _)
Relax(g, i, h, k, acc) ==
    IF k >= g.dim1 THEN acc
    ELSE LET j == acc.collist[k]
             v2 == FSub(FSub(g.assign_cost[i * g.dim1 + j], g.v[j]), h)
         IN  IF FLt(v2, acc.d[j])
             THEN IF FEq(v2, g.min)
                  THEN IF g.colsol[j] < 0
                       THEN [acc EXCEPT !.pred[j] = i, !.endofpath = j,
                                        !.unassigned_found = TRUE]
                       ELSE Relax(g, i, h, k + 1,
                                [acc EXCEPT !.pred[j] = i,
                                            !.collist[k] = acc.collist[acc.up],
                                            !.collist[acc.up] = j,
                                            !.up = acc.up + 1,
                                            !.d[j] = v2])
                  ELSE Relax(g, i, h, k + 1, [acc EXCEPT !.pred[j] = i, !.d[j] = v2])
             ELSE Relax(g, i, h, k + 1, acc)

(***************************************************************************)
(* rlap lines 182-254: one iteration of do ... while (!unassigned_found).  *)
(* Reading collist[up] with up = dim1 is an access out of bounds.          *)
(***************************************************************************)
DijkstraStep(g) ==
    IF g.up = g.low /\ g.up >= g.dim1
    THEN [g EXCEPT !.pc = "undefined"]
    ELSE LET s == IF g.up = g.low
                  THEN ScanMinimum(g, g.up + 1,
                           [collist |-> g.collist, up |-> g.up + 1,
                            min |-> g.d[g.collist[g.up]]])
                  ELSE [collist |-> g.collist, up |-> g.up, min |-> g.min]
             free_cols == {k \in g.low..(s.up - 1) : g.colsol[s.collist[k]] < 0}
             found == g.up = g.low /\ free_cols # {}
             g1 == [g EXCEPT !.last = IF g.up = g.low THEN g.low - 1 ELSE g.last,
                             !.collist = s.collist, !.up = s.up, !.min = s.min,
                             !.unassigned_found = found,
                             !.endofpath = IF found
                                           THEN s.collist[CHOOSE k \in free_cols :
                                                    \A k2 \in free_cols : k <= k2]
                                           ELSE g.endofpath]
         IN  IF found THEN [g1 EXCEPT !.pc = "augment"]
             ELSE LET j1 == g1.collist[g1.low]
                      i == g1.colsol[j1]
                  IN  IF i < 0 THEN [g1 EXCEPT !.pc = "undefined"]
                      ELSE LET h == FSub(FSub(g1.assign_cost[i * g1.dim1 + j1], g1.v[j1]),
                                         g1.min)
                               r == Relax(g1, i, h, g1.up,
                                        [collist |-> g1.collist, up |-> g1.up,
                                         d |-> g1.d, pred |-> g1.pred,
                                         endofpath |-> g1.endofpath,
                                         unassigned_found |-> FALSE])
                           IN  [g1 EXCEPT !.low = g1.low + 1,
                                          !.collist = r.collist, !.up = r.up,
                                          !.d = r.d, !.pred = r.pred,
                                          !.endofpath = r.endofpath,
                                          !.unassigned_found = r.unassigned_found,
                                          !.pc = IF r.unassigned_found THEN "augment"
                                                 ELSE "dijkstra"]

(***************************************************************************)
(* rlap lines 256-264: the update of the column prices.                    *)
(***************************************************************************)
\* faulty variant: the price of every column is updated, not only the
\* prices of the columns that are ready
UpdatePricesAllColumns(g) ==
    [g EXCEPT !.v = [j \in Range0(g.dim1) |-> FSub(FAdd(g.v[j], g.d[j]), g.min)]]

\* faulty variant: the column prices are left as they were
UpdatePricesSkipped(g) == g

UpdatePrices(g) ==
    LET ready == {g.collist[k] : k \in 0..g.last}
    IN  [g EXCEPT !.v = [j \in Range0(g.dim1) |->
                           IF j \in ready THEN FSub(FAdd(g.v[j], g.d[j]), g.min)
                           ELSE g.v[j]]]

(***************************************************************************)
(* rlap lines 266-277: the assignments along the alternating path are      *)
(* reset.  walk counts the iterations of the do ... while.                 *)
(***************************************************************************)
\* faulty variant: the walk re-assigns the rows and leaves colsol as it was
RECURSIVE FlipPathRowsOnly(_)
FlipPathRowsOnly(g) ==
    LET i == g.pred[g.endofpath]
        g1 == [g EXCEPT !.rowsol[i] = g.endofpath,
                        !.endofpath = g.rowsol[i], !.walk = g.walk + 1]
    IN  IF i = g.freerow THEN g1
        ELSE IF g1.endofpath < 0 THEN [g1 EXCEPT !.pc = "undefined"]
        ELSE IF g1.walk > g.dim0 THEN [g1 EXCEPT !.pc = "diverged"]
        ELSE FlipPathRowsOnly(g1)

RECURSIVE FlipPath(_)
FlipPath(g) ==
    LET i == g.pred[g.endofpath]
        g1 == [g EXCEPT !.colsol[g.endofpath] = i, !.rowsol[i] = g.endofpath,
                        !.endofpath = g.rowsol[i], !.walk = g.walk + 1]
    IN  IF i = g.freerow THEN g1
        ELSE IF g1.endofpath < 0 THEN [g1 EXCEPT !.pc = "undefined"]
        ELSE IF g1.walk > g.dim0 THEN [g1 EXCEPT !.pc = "diverged"]
        ELSE FlipPath(g1)

\* faulty variant: the loop over the free rows does not advance
AugmentRowSameRow(g) ==
    LET g1 == FlipPath([UpdatePrices(g) EXCEPT !.walk = 0])
    IN  IF g1.pc \in {"undefined", "diverged"} THEN g1
        ELSE [g1 EXCEPT !.pc = "augment_loop"]

AugmentRow(g) ==
    LET g1 == FlipPath([UpdatePrices(g) EXCEPT !.walk = 0])
    IN  IF g1.pc \in {"undefined", "diverged"} THEN g1
        ELSE [g1 EXCEPT !.f = g.f + 1, !.pc = "augment_loop"]

(***************************************************************************)
(* rlap lines 284-303: the row duals and the cost of the assignment.       *)
(* Reading local_cost[rowsol[i]] of a row left unassigned is an access out *)
(* of bounds.                                                              *)
(***************************************************************************)
RECURSIVE SumRows(_, _)
SumRows(g, i) ==
    IF i >= g.dim0 THEN Fin(0)
    ELSE FAdd(g.assign_cost[i * g.dim1 + g.rowsol[i]], SumRows(g, i + 1))

OptimalCost(g) ==
    IF \E i \in Range0(g.dim0) : g.rowsol[i] < 0
    THEN [g EXCEPT !.pc = "undefined"]
    ELSE [g EXCEPT
            !.u = [i \in Range0(g.dim0) |->
                     FSub(g.assign_cost[i * g.dim1 + g.rowsol[i]], g.v[g.rowsol[i]])],
            !.ret = SumRows(g, 0),
            !.pc = "done"]

(***************************************************************************)
(* After an access out of bounds the call either crashes or runs on and    *)
(* returns arbitrary values.                                               *)
(***************************************************************************)
JVUndefinedOutcomes(g) ==
    {[g EXCEPT !.pc = "crashed"]} \cup
    {[g EXCEPT !.pc = "done", !.rowsol = r, !.ret = x] :
        r \in [Range0(g.dim0) -> NONE..(g.dim1 - 1)], x \in {NAN, Fin(0)}}

JVStep(g) ==
    CASE g.pc = "reduce_loop" -> ReduceLoop(g)
      [] g.pc = "reduce" -> ReduceRow(g)
      [] g.pc = "augment_loop" -> AugmentLoop(g)
      [] g.pc = "dijkstra" -> DijkstraStep(g)
      [] g.pc = "augment" -> AugmentRow(g)
      [] g.pc = "cost" -> OptimalCost(g)
      [] OTHER -> g

\* the whole call, as far as its behaviour is defined and followed
RECURSIVE JVRun(_)
JVRun(g) ==
    IF g.pc \in {"done", "undefined", "crashed", "diverged", "idle"} THEN g
    ELSE IF g.pc = "reduce" /\ g.iters >= MaxReduceIters THEN g
    ELSE JVRun(JVStep(g))

(***************************************************************************)
(* Actions of the Jonker-Volgenant solver.                                 *)
(***************************************************************************)
JReduceLoop == jv.pc = "reduce_loop" /\ jv' = ReduceLoop(jv) /\ UNCHANGED <<inputs, c>>

\* the model follows a pass for up to MaxReduceIters iterations
JReduceRow ==
    /\ jv.pc = "reduce"
    /\ jv.iters < MaxReduceIters
    /\ jv' = ReduceRow(jv)
    /\ UNCHANGED <<inputs, c>>

JAugmentLoop == jv.pc = "augment_loop" /\ jv' = AugmentLoop(jv) /\ UNCHANGED <<inputs, c>>

JDijkstra == jv.pc = "dijkstra" /\ jv' = DijkstraStep(jv) /\ UNCHANGED <<inputs, c>>

JAugmentRow == jv.pc = "augment" /\ jv' = AugmentRow(jv) /\ UNCHANGED <<inputs, c>>

JOptimalCost == jv.pc = "cost" /\ jv' = OptimalCost(jv) /\ UNCHANGED <<inputs, c>>

JUndefined ==
    /\ jv.pc = "undefined"
    /\ jv' \in JVUndefinedOutcomes(jv)
    /\ UNCHANGED <<inputs, c>>

(***************************************************************************)
(* Inputs.                                                                 *)
(***************************************************************************)
\* the shapes nr x nc with sides up to d and up to cells elements
Shapes(lo, d, cells) ==
    {s \in (lo..d) \X (lo..d) : s[1] * s[2] <= cells}

FiniteCosts(m) == {Fin(n) : n \in 0..m}

Matrices(s, vals) == [Range0(s[1] * s[2]) -> vals]

JVIdle == [solve_lap(0, 0, <<>>, <<>>) EXCEPT !.pc = "idle"]

(***************************************************************************)
(* Spec: the Crouse solver (int instantiation) on matrices of finite and   *)
(* +infinity entries.                                                      *)
(***************************************************************************)
Init ==
    /\ solver = "crouse"
    /\ variant = "int"
    /\ \E s \in Shapes(1, MaxDim, MaxCells) :
         /\ numrows = s[1]
         /\ numcols = s[2]
         /\ cost \in Matrices(s, FiniteCosts(MaxCost) \cup {INFINITY})
    /\ maximize \in BOOLEAN
    /\ vbuf = <<>>
    /\ c = CrouseEntry(variant, numrows, numcols, cost, maximize)
    /\ jv = JVIdle

Next == CPrepare \/ CValidate \/ CRowLoop \/ CSearch \/ CUpdate \/ COutput

Spec == Init /\ [][Next]_vars

(***************************************************************************)
(* SpecX: both instantiations of the Crouse solver on matrices with any    *)
(* entries, NaN and the infinities included, and on empty matrices.        *)
(***************************************************************************)
AllCosts(m) == FiniteCosts(m) \cup {INFINITY, NEG_INFINITY, NAN}

InitX ==
    /\ solver = "crouse"
    /\ variant \in {"int", "size_t"}
    /\ \E s \in Shapes(0, MaxDimX, MaxCellsX) :
         /\ numrows = s[1]
         /\ numcols = s[2]
         /\ cost \in Matrices(s, AllCosts(MaxCostX))
    /\ maximize \in BOOLEAN
    /\ vbuf = <<>>
    /\ c = CrouseEntry(variant, numrows, numcols, cost, maximize)
    /\ jv = JVIdle

NextX == CPrepare \/ CValidate \/ CRowLoop \/ CSearch \/ CUpdate \/ COutput \/ CUndefined

SpecX == InitX /\ [][NextX]_vars

(***************************************************************************)
(* SpecJV: rlap entered with v holding zeros, on matrices of finite costs  *)
(* of any orientation.                                                     *)
(***************************************************************************)
InitJV ==
    /\ solver = "jv"
    /\ variant = "int"
    /\ \E s \in Shapes(1, MaxDim, MaxCells) :
         /\ numrows = s[1]
         /\ numcols = s[2]
         /\ cost \in Matrices(s, FiniteCosts(MaxCostJ))
    /\ maximize = FALSE
    /\ vbuf = ConstFun(numcols, Fin(0))
    /\ c = CrouseIdle
    /\ jv = solve_lap(numrows, numcols, cost, vbuf)

NextJV ==
    \/ JReduceLoop \/ JReduceRow \/ JAugmentLoop \/ JDijkstra \/ JAugmentRow
    \/ JOptimalCost \/ JUndefined

SpecJV == InitJV /\ [][NextJV]_vars

(***************************************************************************)
(* SpecLap: solve_lap on square and wide matrices of finite costs; the     *)
(* buffer v is new[]-allocated and never initialised, so that it holds     *)
(* arbitrary values: zeros, other numbers, NaN.                            *)
(***************************************************************************)
Garbage == {Fin(0), Fin(1), NAN}

InitLap ==
    /\ solver = "jv"
    /\ variant = "int"
    /\ \E s \in Shapes(1, MaxDim, MaxCells) :
         /\ s[1] <= s[2]
         /\ numrows = s[1]
         /\ numcols = s[2]
         /\ cost \in Matrices(s, FiniteCosts(MaxCostX))
    /\ maximize = FALSE
    /\ vbuf \in [Range0(numcols) -> Garbage]
    /\ c = CrouseIdle
    /\ jv = solve_lap(numrows, numcols, cost, vbuf)

SpecLap == InitLap /\ [][NextJV]_vars

(***************************************************************************)
(* SpecConst: either solver on a square matrix of one constant cost (rlap  *)
(* entered with v holding zeros).                                          *)
(***************************************************************************)
InitConst ==
    /\ solver \in {"crouse", "jv"}
    /\ variant = "int"
    /\ numrows \in 1..MaxConstDim
    /\ numcols = numrows
    /\ \E x \in FiniteCosts(MaxCost) : cost = ConstFun(numrows * numcols, x)
    /\ maximize = FALSE
    /\ vbuf = ConstFun(numcols, Fin(0))
    /\ c = IF solver = "crouse"
           THEN CrouseEntry(variant, numrows, numcols, cost, maximize)
           ELSE CrouseIdle
    /\ jv = IF solver = "jv" THEN solve_lap(numrows, numcols, cost, vbuf) ELSE JVIdle

NextConst ==
    \/ CPrepare \/ CValidate \/ CRowLoop \/ CSearch \/ CUpdate \/ COutput
    \/ JReduceLoop \/ JReduceRow \/ JAugmentLoop \/ JDijkstra \/ JAugmentRow
    \/ JOptimalCost

SpecConst == InitConst /\ [][NextConst]_vars

(***************************************************************************)
(* SpecFinite: either solver on a matrix of finite costs; the Crouse       *)
(* solver in both directions and any orientation, rlap (entered with v     *)
(* holding zeros) on the square and wide matrices its loops are written    *)
(* for.                                                                    *)
(***************************************************************************)
InitFinite ==
    /\ solver \in {"crouse", "jv"}
    /\ variant = "int"
    /\ \E s \in Shapes(1, MaxDim, MaxCells) :
         /\ solver = "jv" => s[1] <= s[2]
         /\ numrows = s[1]
         /\ numcols = s[2]
         /\ cost \in Matrices(s, FiniteCosts(MaxCostJ))
    /\ maximize \in (IF solver = "crouse" THEN BOOLEAN ELSE {FALSE})
    /\ vbuf = ConstFun(numcols, Fin(0))
    /\ c = IF solver = "crouse"
           THEN CrouseEntry(variant, numrows, numcols, cost, maximize)
           ELSE CrouseIdle
    /\ jv = IF solver = "jv" THEN solve_lap(numrows, numcols, cost, vbuf) ELSE JVIdle

SpecFinite == InitFinite /\ [][NextConst]_vars

(***************************************************************************)
(* SpecTerm: the runs whose end is in question.  The Crouse solver on      *)
(* valid matrices, +infinity entries included; rlap on square and wide     *)
(* matrices of finite costs, entered with a buffer v that holds numbers.   *)
(***************************************************************************)
InitTerm ==
    /\ solver \in {"crouse", "jv"}
    /\ variant = "int"
    /\ \E s \in Shapes(1, MaxDim, MaxCells) :
         /\ solver = "jv" => s[1] <= s[2]
         /\ numrows = s[1]
         /\ numcols = s[2]
         /\ cost \in Matrices(s, IF solver = "crouse"
                                 THEN FiniteCosts(MaxCost) \cup {INFINITY}
                                 ELSE FiniteCosts(MaxCostX))
    /\ maximize = FALSE
    /\ vbuf \in (IF solver = "jv" THEN [Range0(numcols) -> FiniteCosts(MaxCostX)]
                 ELSE {<<>>})
    /\ c = IF solver = "crouse"
           THEN CrouseEntry(variant, numrows, numcols, cost, maximize)
           ELSE CrouseIdle
    /\ jv = IF solver = "jv" THEN solve_lap(numrows, numcols, cost, vbuf) ELSE JVIdle

SpecTerm == InitTerm /\ [][NextConst]_vars

(***************************************************************************)
(* Reference notions for the properties: matchings of an nr x nc matrix,   *)
(* their total cost, the brute-force optimum.                              *)
(***************************************************************************)
Injections(S, T) == {f \in [S -> T] : \A x, y \in S : x # y => f[x] # f[y]}

\* the one-to-one matchings of min(nr, nc) rows to min(nr, nc) columns
AllMatchings(nr0, nc0) ==
    IF nr0 <= nc0
    THEN {{<<i, f[i]>> : i \in Range0(nr0)} : f \in Injections(Range0(nr0), Range0(nc0))}
    ELSE {{<<f[j], j>> : j \in Range0(nc0)} : f \in Injections(Range0(nc0), Range0(nr0))}

RECURSIVE TotalCost(_, _, _)
TotalCost(m, nc0, P) ==
    IF P = {} THEN Fin(0)
    ELSE LET p == CHOOSE q \in P : TRUE
         IN  FAdd(m[p[1] * nc0 + p[2]], TotalCost(m, nc0, P \ {p}))

MinTotal(nr0, nc0, m) ==
    LET T == {TotalCost(m, nc0, P) : P \in AllMatchings(nr0, nc0)}
    IN  CHOOSE t \in T : \A t2 \in T : FLe(t, t2)

MaxTotal(nr0, nc0, m) ==
    LET T == {TotalCost(m, nc0, P) : P \in AllMatchings(nr0, nc0)}
    IN  CHOOSE t \in T : \A t2 \in T : FGe(t, t2)

\* a matching of full size that uses no +infinity entry exists
Feasible(nr0, nc0, m) ==
    \E P \in AllMatchings(nr0, nc0) : \A p \in P : m[p[1] * nc0 + p[2]] # INFINITY

\* the pairs (a[i], b[i]) a finished call returned
Pairs(f) == {<<f.a[i], f.b[i]>> : i \in DOMAIN f.a}

MinDim == Min2(numrows, numcols)

AllFinite(m) == \A k \in DOMAIN m : IsFin(m[k])

Returned(f, status) == f.pc = "done" /\ f.ret = status

\* the nc0 x nr0 transpose of the nr0 x nc0 matrix m
Mirror(nr0, nc0, m) ==
    [k \in Range0(nr0 * nc0) |-> m[(k % nr0) * nc0 + (k \div nr0)]]

Negated(m) == [k \in DOMAIN m |-> FNeg(m[k])]

(***************************************************************************)
(* C1.  Crouse solver optimality: whenever the solver returns Ok with      *)
(* maximize = false on a matrix of finite or +infinity entries, the        *)
(* returned pairs are a one-to-one matching of min(nr, nc) rows to         *)
(* min(nr, nc) columns of the original matrix, and their total cost is the *)
(* minimum over all such matchings.                                        *)
(***************************************************************************)
C1_CrouseOptimal ==
    (Returned(c, RECTANGULAR_LSAP_OK) /\ ~maximize) =>
        /\ DOMAIN c.a = Range0(MinDim)
        /\ DOMAIN c.b = Range0(MinDim)
        /\ Pairs(c) \in AllMatchings(numrows, numcols)
        /\ FEq(TotalCost(cost, numcols, Pairs(c)), MinTotal(numrows, numcols, cost))

\* a tall matrix with a forbidden entry, solved by a matching that is not
\* the diagonal one and that needed a re-assignment of an earlier row
C1_Witness ==
    /\ Returned(c, RECTANGULAR_LSAP_OK) /\ ~maximize
    /\ numrows > numcols /\ numcols >= 2
    /\ \E k \in DOMAIN cost : cost[k] = INFINITY
    /\ \E i \in DOMAIN c.a : c.a[i] # c.b[i]
    /\ c.walk >= 2

(***************************************************************************)
(* C3.  Infeasibility detection, as claimed: on a valid matrix (here with  *)
(* maximize = false) that has no full matching avoiding +infinity, every   *)
(* Crouse entry point, int or size_t, returns Infeasible and never goes on *)
(* to the dual update with the failed sink; and it returns Infeasible only *)
(* when no such matching exists.                                           *)
(***************************************************************************)
ValidInput == \A k \in DOMAIN cost : cost[k] # NAN /\ cost[k] # NEG_INFINITY

C3_InfeasibleDetected ==
    /\ (/\ numrows >= 1 /\ numcols >= 1 /\ ~maximize /\ ValidInput
        /\ ~Feasible(numrows, numcols, cost))
         => /\ c.pc \notin {"undefined", "crashed"}
            /\ c.pc = "done" => c.ret = RECTANGULAR_LSAP_INFEASIBLE
    /\ (Returned(c, RECTANGULAR_LSAP_INFEASIBLE) /\ ~maximize)
         => ~Feasible(numrows, numcols, cost)

(***************************************************************************)
(* C4.  Invalid-input detection, as claimed: a NaN or -infinity entry in   *)
(* the caller's matrix makes the solver return Invalid, for either value   *)
(* of maximize and either orientation.                                     *)
(***************************************************************************)
C4_InvalidOnNaNOrNegInf ==
    (/\ c.pc = "done" /\ numrows >= 1 /\ numcols >= 1
     /\ \E k \in DOMAIN cost : cost[k] = NAN \/ cost[k] = NEG_INFINITY)
      => c.ret = RECTANGULAR_LSAP_INVALID

(***************************************************************************)
(* C4, amended.  The entries are tested after the negation for             *)
(* maximisation: the solver returns Invalid whenever the caller's matrix   *)
(* has a NaN entry, a -infinity entry with maximize = false, or a          *)
(* +infinity entry with maximize = true, in either orientation and either  *)
(* instantiation.                                                          *)
(***************************************************************************)
InvalidAfterSign(x) ==
    x = NAN \/ (~maximize /\ x = NEG_INFINITY) \/ (maximize /\ x = INFINITY)

C4_InvalidAfterNegation ==
    (/\ c.pc \in {"done", "undefined", "crashed", "row", "search", "update", "output"}
     /\ numrows >= 1 /\ numcols >= 1
     /\ \E k \in DOMAIN cost : InvalidAfterSign(cost[k]))
      => Returned(c, RECTANGULAR_LSAP_INVALID)

\* a tall matrix whose only bad entry is +infinity, under maximize
C4_Witness ==
    /\ Returned(c, RECTANGULAR_LSAP_INVALID)
    /\ maximize /\ numrows > numcols
    /\ \E k \in DOMAIN cost : cost[k] = INFINITY
    /\ \A k \in DOMAIN cost : cost[k] # NAN /\ cost[k] # NEG_INFINITY

(***************************************************************************)
(* C5.  +infinity is permitted, as claimed: on a matrix of finite and      *)
(* +infinity entries the solver never returns Invalid, whatever maximize   *)
(* is, and when it returns Ok no returned pair has cost +infinity.         *)
(***************************************************************************)
FiniteOrInf(m) == \A k \in DOMAIN m : IsFin(m[k]) \/ m[k] = INFINITY

C5_InfPermitted ==
    (c.pc = "done" /\ variant = "int" /\ FiniteOrInf(cost)) =>
        /\ c.ret # RECTANGULAR_LSAP_INVALID
        /\ c.ret = RECTANGULAR_LSAP_OK =>
             \A p \in Pairs(c) : cost[p[1] * numcols + p[2]] # INFINITY

(***************************************************************************)
(* C5, amended.  The forbidden entry is +infinity under maximize = false   *)
(* and -infinity under maximize = true: on a matrix whose entries are      *)
(* finite or the forbidden entry of the requested direction, the solver    *)
(* never returns Invalid, and when it returns Ok no returned pair is a     *)
(* forbidden one.                                                          *)
(***************************************************************************)
Forbidden == IF maximize THEN NEG_INFINITY ELSE INFINITY

C5_ForbiddenPermitted ==
    (/\ c.pc = "done" /\ variant = "int"
     /\ \A k \in DOMAIN cost : IsFin(cost[k]) \/ cost[k] = Forbidden)
      => /\ c.ret # RECTANGULAR_LSAP_INVALID
         /\ c.ret = RECTANGULAR_LSAP_OK =>
              /\ DOMAIN c.a = Range0(MinDim)
              /\ \A p \in Pairs(c) : cost[p[1] * numcols + p[2]] # Forbidden

\* Ok on a matrix with a forbidden entry in the first row's first column
C5_Witness ==
    /\ Returned(c, RECTANGULAR_LSAP_OK) /\ variant = "int"
    /\ numrows >= 2 /\ numcols >= 2
    /\ cost[0] = Forbidden
    /\ \A k \in DOMAIN cost : IsFin(cost[k]) \/ cost[k] = Forbidden

(***************************************************************************)
(* C6.  Output frame on failure: the output buffers a and b are written    *)
(* only by a call that returns Ok; a call that returns Infeasible or       *)
(* Invalid, or that returns at once on nr = 0 or nc = 0, has written no    *)
(* element of them in any of its states; and (int instantiation) they are  *)
(* written only after every row was augmented.                             *)
(***************************************************************************)
Touched(f) == DOMAIN f.a # {} \/ DOMAIN f.b # {}

C6_OutputFrame ==
    /\ Touched(c) => Returned(c, RECTANGULAR_LSAP_OK)
    /\ (numrows = 0 \/ numcols = 0) => ~Touched(c)
    /\ (Touched(c) /\ variant = "int") =>
          /\ c.curRow = c.nr
          /\ \A i \in Range0(c.nr) : c.col4row[i] # NONE

\* Infeasible is returned after an earlier row was matched
C6_Witness ==
    /\ Returned(c, RECTANGULAR_LSAP_INFEASIBLE)
    /\ c.curRow >= 1
    /\ ~Touched(c)

(***************************************************************************)
(* C8.  Maximize is minimize of the negation: on a matrix of finite costs, *)
(* the call with maximize = true returns the status and the outputs a, b   *)
(* of the call on the negated matrix with maximize = false, and the two    *)
(* total costs differ only in sign.                                        *)
(***************************************************************************)
C8_MaximizeIsNegatedMinimize ==
    (c.pc = "done" /\ maximize /\ AllFinite(cost)) =>
        LET r == solve_rlap(variant, numrows, numcols, Negated(cost), FALSE)
        IN  /\ r.pc = "done" /\ r.ret = c.ret
            /\ r.a = c.a /\ r.b = c.b
            /\ TotalCost(cost, numcols, Pairs(c))
                 = FNeg(TotalCost(Negated(cost), numcols, Pairs(r)))
            /\ FEq(TotalCost(cost, numcols, Pairs(c)), MaxTotal(numrows, numcols, cost))

\* a maximisation whose answer differs from the minimisation's
C8_Witness ==
    /\ Returned(c, RECTANGULAR_LSAP_OK) /\ maximize /\ AllFinite(cost)
    /\ numrows >= 2 /\ numcols >= 2
    /\ c.b # solve_rlap(variant, numrows, numcols, cost, FALSE).b

(***************************************************************************)
(* C9.  Transposition symmetry, as claimed: on every matrix of finite      *)
(* costs the solver returns, for the matrix and for its transpose, the     *)
(* same status, equal total cost and mirror-image pairs.                   *)
(***************************************************************************)
MirrorPairs(P) == {<<p[2], p[1]>> : p \in P}

OnTranspose == solve_rlap(variant, numcols, numrows, Mirror(numrows, numcols, cost), maximize)

C9_TransposeMirror ==
    (c.pc = "done" /\ AllFinite(cost)) =>
        /\ OnTranspose.ret = c.ret
        /\ TotalCost(Mirror(numrows, numcols, cost), numrows, Pairs(OnTranspose))
             = TotalCost(cost, numcols, Pairs(c))
        /\ Pairs(OnTranspose) = MirrorPairs(Pairs(c))

(***************************************************************************)
(* C9, amended.  The matrix and its transpose get the same status and      *)
(* equal total cost; the pairs are mirror images when the matrix is not    *)
(* square or when its optimal matching is unique.  (A square matrix with   *)
(* tied optima may get two different optimal matchings.)                   *)
(***************************************************************************)
BestTotal == IF maximize THEN MaxTotal(numrows, numcols, cost)
             ELSE MinTotal(numrows, numcols, cost)

UniqueOptimum ==
    Cardinality({P \in AllMatchings(numrows, numcols) :
                    TotalCost(cost, numcols, P) = BestTotal}) = 1

C9_TransposeMirrorUnlessTied ==
    (c.pc = "done" /\ AllFinite(cost)) =>
        /\ OnTranspose.ret = c.ret
        /\ TotalCost(Mirror(numrows, numcols, cost), numrows, Pairs(OnTranspose))
             = TotalCost(cost, numcols, Pairs(c))
        /\ (numrows # numcols \/ UniqueOptimum) =>
              Pairs(OnTranspose) = MirrorPairs(Pairs(c))

\* a wide matrix with tied optima, solved off the diagonal
C9_Witness ==
    /\ Returned(c, RECTANGULAR_LSAP_OK) /\ AllFinite(cost)
    /\ numrows < numcols /\ numrows >= 2
    /\ ~UniqueOptimum
    /\ \E i \in DOMAIN c.a : c.a[i] # c.b[i]

(***************************************************************************)
(* C2.  On every square matrix of finite costs the value solve_lap returns *)
(* equals the total cost of the assignment the Crouse solver returns for   *)
(* maximize = false, and both equal the minimum total cost over all        *)
(* permutations.                                                           *)
(***************************************************************************)
\* the pairs (i, rowsol[i]) of the rows rlap left assigned
JVPairs(g) == {<<i, g.rowsol[i]>> : i \in {r \in Range0(g.dim0) : g.rowsol[r] >= 0}}

CrouseTotal ==
    TotalCost(cost, numcols, Pairs(solve_rlap("int", numrows, numcols, cost, FALSE)))

C2_JVCostEqualsCrouse ==
    (solver = "jv" /\ numrows = numcols) =>
        /\ jv.pc \notin {"undefined", "crashed", "diverged"}
        /\ jv.pc = "done" =>
             /\ FEq(jv.ret, CrouseTotal)
             /\ FEq(jv.ret, MinTotal(numrows, numcols, cost))

(***************************************************************************)
(* C7.  Constant-cost identity, as claimed: on a square matrix of one      *)
(* finite cost, of any size, both solvers match row i to column i.         *)
(***************************************************************************)
Identity(n) == [i \in Range0(n) |-> i]

C7_ConstantIdentity ==
    /\ Returned(c, RECTANGULAR_LSAP_OK) =>
         c.a = Identity(numrows) /\ c.b = Identity(numrows)
    /\ jv.pc = "done" => jv.rowsol = Identity(numrows)

(***************************************************************************)
(* C7, amended.  On a square matrix of one finite cost the Crouse solver   *)
(* matches row i to column i for every size; rlap (v starting at 0)        *)
(* returns a permutation, which is the identity for the sizes up to 3 only *)
(* (for size 4 it returns rowsol = 0, 3, 1, 2).                            *)
(***************************************************************************)
C7_ConstantIdentityCrouse ==
    /\ c.pc \in {"done", "undefined", "crashed", "diverged"} =>
         /\ Returned(c, RECTANGULAR_LSAP_OK)
         /\ c.a = Identity(numrows) /\ c.b = Identity(numrows)
    /\ jv.pc \in {"done", "undefined", "crashed", "diverged"} =>
         /\ jv.pc = "done"
         /\ \A i \in Range0(numrows) :
              jv.rowsol[i] \in Range0(numcols) /\ jv.colsol[jv.rowsol[i]] = i
         /\ numrows <= 3 => jv.rowsol = Identity(numrows)

\* the Crouse solver has finished the largest matrix
C7_Witness ==
    /\ Returned(c, RECTANGULAR_LSAP_OK)
    /\ numrows = MaxConstDim
    /\ c.b = Identity(numrows)

(***************************************************************************)
(* C10.  As claimed: solve_lap accepts a matrix with more rows than        *)
(* columns; on such a matrix it finishes with every array index in bounds  *)
(* and a matching of min(nr, nc) pairs of minimum total cost.              *)
(***************************************************************************)
C10_JVOrientationFree ==
    (solver = "jv" /\ numrows > numcols) =>
        /\ jv.pc \notin {"undefined", "crashed", "diverged"}
        /\ jv.pc = "done" =>
             /\ JVPairs(jv) \in AllMatchings(numrows, numcols)
             /\ FEq(TotalCost(cost, numcols, JVPairs(jv)),
                    MinTotal(numrows, numcols, cost))

(***************************************************************************)
(* C11.  The assignment of rlap is a bijection on the matched subset: when *)
(* rlap (entered with v = 0) has run on a matrix of finite costs with      *)
(* dim0 <= dim1, it returns with every index in bounds, every row i has    *)
(* rowsol[i] in 0..dim1-1 and colsol[rowsol[i]] = i, every column j has    *)
(* colsol[j] = -1 or rowsol[colsol[j]] = j, and exactly min(dim0, dim1)    *)
(* columns are assigned.                                                   *)
(***************************************************************************)
JVEnded == jv.pc \in {"done", "undefined", "crashed", "diverged"}

AssignedCols(g) == {j \in Range0(g.dim1) : g.colsol[j] # NONE}

DualCertificate(nr0, nc0, m, u, v, colOf) ==
    /\ \A i \in Range0(nr0) : FEq(m[i * nc0 + colOf[i]], FAdd(u[i], v[colOf[i]]))
    /\ \A i \in Range0(nr0), j \in Range0(nc0) : FGe(m[i * nc0 + j], FAdd(u[i], v[j]))

C12_DualCertificate ==
    /\ (c.pc \in {"output", "done"} /\ c.ret = RECTANGULAR_LSAP_OK) =>
         DualCertificate(c.nr, c.nc, c.costMatrix, c.u, c.v, c.col4row)
    /\ jv.pc = "done" =>
         DualCertificate(jv.dim0, jv.dim1, jv.assign_cost, jv.u, jv.v, jv.rowsol)

\* rlap has finished a run whose second phase changed the column prices
\* along a path of two rows
C12_Witness ==
    /\ jv.pc = "done"
    /\ jv.walk >= 2
    /\ \E j \in Range0(numcols) : jv.v[j] # Fin(0)
    /\ \E i \in Range0(numrows) : jv.u[i] # Fin(0)

(***************************************************************************)
(* C13.  Termination: every call ends.  In the Crouse solver each search   *)
(* of augmenting_path makes at most nc iterations and ends with a sink or  *)
(* with the Infeasible result, and each walk back over path[] reaches      *)
(* curRow; in rlap, on a finite matrix with dim0 <= dim1, the row          *)
(* reduction with its retries, each shortest-path search and each walk     *)
(* over pred[] end, with every index in bounds.  Stated with a measure of  *)
(* the position in the call: it is bounded and every step increases it,    *)
(* and a call that has not returned can always take a step.                *)
(***************************************************************************)
\* the position in solve_rectangular_linear_assignment
CrouseProgress(f) ==
    LET row == 2 + f.curRow * (f.nc + 3)
    IN  CASE f.pc = "entry" -> 0
          [] f.pc = "validate" -> 1
          [] f.pc = "row" -> row
          [] f.pc = "search" -> row + 1 + f.iters
          [] f.pc = "update" -> row + f.nc + 2
          [] f.pc = "output" -> 2 + f.nr * (f.nc + 3) + 1
          [] f.pc = "done" -> 2 + (f.nr + 1) * (f.nc + 3)
          [] OTHER -> 0

\* the position in rlap
JVProgress(g) ==
    LET pass == g.loopcnt * (MaxReduceIters + 2)
        row == 2 * (MaxReduceIters + 2) + 1 + g.f * (g.dim1 + 3)
    IN  CASE g.pc = "reduce_loop" -> pass
          [] g.pc = "reduce" -> pass + 1 + g.iters
          [] g.pc = "augment_loop" -> row
          [] g.pc = "dijkstra" -> row + 1 + g.low
          [] g.pc = "augment" -> row + g.dim1 + 2
          [] g.pc = "cost" -> 2 * (MaxReduceIters + 2) + 1 + (g.dim0 + 1) * (g.dim1 + 3)
          [] g.pc = "done" -> 2 * (MaxReduceIters + 2) + 2 + (g.dim0 + 1) * (g.dim1 + 3)
          [] OTHER -> 0

Progress == IF solver = "crouse" THEN CrouseProgress(c) ELSE JVProgress(jv)

LoopsBounded ==
    /\ c.iters <= c.nc
    /\ c.walk <= c.nr
    /\ c.pc # "diverged"
    /\ jv.pc = "reduce" => jv.iters < MaxReduceIters
    /\ jv.pc = "dijkstra" => jv.low < jv.dim1
    /\ jv.walk <= jv.dim0
    /\ jv.pc \notin {"diverged", "undefined"}

SameJVResult(g, h) ==
    /\ g.pc = "done" /\ h.pc = "done"
    /\ g.ret = h.ret
    /\ g.rowsol = h.rowsol

C14_Deterministic ==
    /\ (solver = "jv" /\ JVEnded) =>
         \A vb \in [Range0(numcols) -> Garbage] :
             SameJVResult(jv, JVRun(solve_lap(numrows, numcols, cost, vb)))
    /\ (solver = "crouse" /\ c.pc = "done") =>
         LET again == solve_rlap(variant, numrows, numcols, cost, maximize)
         IN  again.ret = c.ret /\ again.a = c.a /\ again.b = c.b

StrictlyIncreasing(w) == \A i, j \in DOMAIN w : i < j => w[i] < w[j]

C16_OutputOrdering ==
    Returned(c, RECTANGULAR_LSAP_OK) =>
        /\ DOMAIN c.a = Range0(MinDim) /\ DOMAIN c.b = Range0(MinDim)
        /\ StrictlyIncreasing(c.a)
        /\ \A i \in DOMAIN c.a : c.a[i] \in Range0(numrows) /\ c.b[i] \in Range0(numcols)
        /\ numrows <= numcols =>
             /\ c.a = Identity(numrows)
             /\ \A i \in Range0(numrows) : c.b[i] = c.col4row[i]
             /\ \A i, j \in Range0(numrows) : i # j => c.b[i] # c.b[j]
        /\ numrows > numcols =>
             /\ {c.b[i] : i \in DOMAIN c.b} = Range0(numcols)
             /\ \A i \in DOMAIN c.a : c.row4col[c.a[i]] = c.b[i]

\* a tall matrix whose columns were matched to rows out of column order
C16_Witness ==
    /\ Returned(c, RECTANGULAR_LSAP_OK)
    /\ numrows > numcols /\ numcols >= 2
    /\ c.b # Identity(numcols)
    /\ c.a # Identity(numcols)

(***************************************************************************)
(* C17.  The matching of the Crouse solver grows by exactly one row per    *)
(* iteration of the row loop: once the iterations for the rows before      *)
(* curRow are complete, exactly those rows are matched (col4row[i] # -1    *)
(* iff i < curRow), exactly as many columns are assigned, and col4row and  *)
(* row4col are inverse to each other on the matched rows and columns; a    *)
(* row matched in an earlier iteration is never left unmatched later.      *)
(***************************************************************************)
MatchedRows(f) == {i \in Range0(f.nr) : f.col4row[i] # NONE}

MatchedCols(f) == {j \in Range0(f.nc) : f.row4col[j] # NONE}

C17_MatchingGrowsByOne ==
    c.pc \in {"row", "search", "update", "output"} =>
        /\ MatchedRows(c) = Range0(c.curRow)
        /\ Cardinality(MatchedCols(c)) = c.curRow
        /\ \A i \in MatchedRows(c) :
             c.col4row[i] \in Range0(c.nc) /\ c.row4col[c.col4row[i]] = i
        /\ \A j \in MatchedCols(c) :
             c.row4col[j] \in Range0(c.nr) /\ c.col4row[c.row4col[j]] = j

\* the iteration for the third row has just moved an earlier row to another
\* column
C17_Witness ==
    /\ c.pc = "row"
    /\ c.curRow = 3
    /\ c.walk >= 2

(***************************************************************************)
(* C18.  Initialisation of the column prices, as claimed: in a call of     *)
(* solve_lap / solve_lapf every v[j] holds a defined value, 0, when        *)
(* find_umins first reads it in the row reduction and when the second      *)
(* phase first computes d[j] = cost[freerow][j] - v[j]; the call never     *)
(* goes on with an index that a read of an undefined v[j] has produced.    *)
(***************************************************************************)
FirstRead(g) == g.pc = "reduce" /\ g.loopcnt = 0 /\ g.iters = 0

C18_PricesInitialised ==
    solver = "jv" =>
        /\ FirstRead(jv) => \A j \in Range0(numcols) : jv.v[j] = Fin(0)
        /\ jv.pc \in {"reduce", "augment_loop", "dijkstra", "augment"} =>
             \A j \in Range0(numcols) : ~IsNaN(jv.v[j])
        /\ jv.pc # "undefined"

====
